---- MODULE Spec2Model ----
(***************************************************************************)
(* Model of the statement executor of rust_sqlite (src/src/main.rs):       *)
(* process_command applied to an in-memory Database by a front-end loop.   *)
(*                                                                         *)
(* A front-end iteration is two steps: the executor runs one parsed        *)
(* statement (pc "idle" -> "executed"), then the front-end renders the     *)
(* result, saves the snapshot after a success and drops the statement (pc  *)
(* "executed" -> "idle").  A panic of the executor ends the run (pc        *)
(* "aborted").  Spec is the interactive shell; ServerSpec is the HTTP      *)
(* handler, run by several requests that share the Database behind a       *)
(* Mutex.                                                                  *)
(*                                                                         *)
(* Integer widths are scaled down: TLC integers are 32 bits wide, so the   *)
(* u32 of Row.id / Table.last_id is an integer modulo U32Mod and the i64   *)
(* of Value::Integer is bounded by I64Max.                                 *)
(***************************************************************************)
EXTENDS Integers, Sequences, FiniteSets, TLC

VARIABLES db, pc, stmt, res, prev, disk, writes_failed, lock, poisoned, req

vars == <<db, pc, stmt, res, prev, disk, writes_failed, lock, poisoned, req>>

(***************************************************************************)
(* Bounds                                                                  *)
(***************************************************************************)
\* number of distinct u32 values (2^32 in the program)
U32Mod == 4
\* rows the database may hold: an INSERT that would store more is not issued
MaxRows == 3
\* snapshot writes that may fail in a row
MaxWriteFailures == 1
\* requests the server handles at the same time
MaxRequests == 2

U32Max == U32Mod - 1
\* greatest i64 (2^63 - 1 in the program); kept above u32's range
I64Max == 2 * U32Mod + 1

(***************************************************************************)
(* Value (main.rs 16-23).  One record shape for all variants so that the   *)
(* derived PartialEq is record equality: t is the variant, n the payload   *)
(* of Integer (the number), Float (n stands for the float n.5) and Bool    *)
(* (0/1), s the payload of Text.                                           *)
(***************************************************************************)
Integer(i) == [t |-> "Integer", n |-> i, s |-> ""]
Float(f) == [t |-> "Float", n |-> f, s |-> ""]
Text(str) == [t |-> "Text", n |-> 0, s |-> str]
Bool(b) == [t |-> "Bool", n |-> IF b THEN 1 ELSE 0, s |-> ""]
Null == [t |-> "Null", n |-> 0, s |-> ""]

\* Row (main.rs 26-29): data is the BTreeMap column name -> Value
Row(id, data) == [id |-> id, data |-> data]

\* Table::new (main.rs 41-49)
NewTable(name) ==
    [name |-> name, columns |-> <<>>, unique_columns |-> <<>>,
     data |-> <<>>, last_id |-> 0]

\* Database::new (main.rs 58-60): tables is the HashMap name -> Table
NewDatabase == [tables |-> <<>>]

(***************************************************************************)
(* The snapshot file mydb.json: absent, the complete serialization of a    *)
(* Database, or a file cut short by a write that failed after              *)
(* File::create had truncated it.                                          *)
(***************************************************************************)
NoFile == [file |-> "absent", db |-> NewDatabase]
Snapshot(d) == [file |-> "json", db |-> d]
Partial == [file |-> "partial", db |-> NewDatabase]

\* what the file system does to one save: File::create fails, the write
\* fails after the file was truncated, or both succeed
IoOutcomes == {"ok", "create_failed", "write_failed"}

\* save_to_disk (main.rs 62-66)
SaveToDisk(file, d, io) ==
    CASE io = "create_failed" -> [disk |-> file, ok |-> FALSE]
      [] io = "write_failed" -> [disk |-> Partial, ok |-> FALSE]
      [] OTHER -> [disk |-> Snapshot(d), ok |-> TRUE]

\* load_from_disk (main.rs 68-76)
LoadFromDisk(file) ==
    CASE file.file = "absent" -> [ok |-> TRUE, db |-> NewDatabase]
      [] file.file = "json" -> [ok |-> TRUE, db |-> file.db]
      [] OTHER -> [ok |-> FALSE, db |-> NewDatabase]

\* Database::load_from_disk().unwrap_or_else(|_| Database::new()) (main.rs 432, 447)
LoadOrNew(file) ==
    IF LoadFromDisk(file).ok THEN LoadFromDisk(file).db ELSE NewDatabase

\* BTreeMap::insert / HashMap::insert: the new entry replaces an old one
MapInsert(m, k, v) == (k :> v) @@ m

\* BTreeMap::remove
MapRemove(m, k) == [x \in (DOMAIN m) \ {k} |-> m[x]]

\* BTreeMap::get(..).unwrap_or(&Value::Null)
GetOrNull(m, k) == IF k \in DOMAIN m THEN m[k] ELSE Null

\* BTreeMap<u32, _> iterates in ascending key order
RECURSIVE SortedKeys(_)
SortedKeys(S) ==
    IF S = {} THEN <<>>
    ELSE LET m == CHOOSE x \in S : \A y \in S : x <= y
         IN <<m>> \o SortedKeys(S \ {m})

(***************************************************************************)
(* Parsed expressions (sqlparser::ast::Expr as the executor matches it).   *)
(* k: "Number" (n, dot: the literal has a decimal point), "String"         *)
(* (SingleQuotedString s), "Boolean" (n = 0/1), "Null", "OtherValue" (any  *)
(* other ast::Value, e.g. N'x', X'ff' or a placeholder), "Identifier" (s), *)
(* "OtherExpr" (any other Expr, e.g. a function call or -1).               *)
(***************************************************************************)
Number(i) == [k |-> "Number", n |-> i, dot |-> FALSE, s |-> ""]
NumberDot(i) == [k |-> "Number", n |-> i, dot |-> TRUE, s |-> ""]
String(str) == [k |-> "String", n |-> 0, dot |-> FALSE, s |-> str]
Boolean(b) == [k |-> "Boolean", n |-> IF b THEN 1 ELSE 0, dot |-> FALSE, s |-> ""]
NullLit == [k |-> "Null", n |-> 0, dot |-> FALSE, s |-> ""]
OtherValue == [k |-> "OtherValue", n |-> 0, dot |-> FALSE, s |-> ""]
Identifier(str) == [k |-> "Identifier", n |-> 0, dot |-> FALSE, s |-> str]
OtherExpr == [k |-> "OtherExpr", n |-> 0, dot |-> FALSE, s |-> ""]

\* n.parse::<i64>().unwrap_or(0): a numeral above i64's range parses to 0
ParseI64(e) == IF e.n <= I64Max THEN e.n ELSE 0

\* n.parse::<u32>().unwrap_or(0): a numeral with a decimal point or above
\* u32's range parses to 0
ParseU32(e) == IF ~e.dot /\ e.n <= U32Max THEN e.n ELSE 0

\* `provided_id as u32` (main.rs 175): truncation to the low 32 bits
AsU32(i) == i % U32Mod

(***************************************************************************)
(* Results of process_command: Result<String, String> (main.rs 81), or a   *)
(* panic.  msg names the message (the spec's failure categories for Err),  *)
(* col / val / n carry what the text names, lines the SELECT output as     *)
(* one sequence of cells per line (cells are joined by " | ").             *)
(***************************************************************************)
NoRes == [status |-> "None", msg |-> "", col |-> "", val |-> Null, n |-> 0, lines |-> <<>>]
Ok(msg, n) == [NoRes EXCEPT !.status = "Ok", !.msg = msg, !.n = n]
OkLines(lines) == [NoRes EXCEPT !.status = "Ok", !.msg = "Rows", !.lines = lines]
Err(msg) == [NoRes EXCEPT !.status = "Err", !.msg = msg]
ErrCol(msg, col, val) == [NoRes EXCEPT !.status = "Err", !.msg = msg, !.col = col, !.val = val]
ErrId(msg, n) == [NoRes EXCEPT !.status = "Err", !.msg = msg, !.n = n]
Panic(msg) == [NoRes EXCEPT !.status = "Panic", !.msg = msg]

\* what an arm of process_command leaves behind: the database and the result
Out(d, r) == [db |-> d, res |-> r]

(***************************************************************************)
(* CREATE TABLE (main.rs 84-112).  A column definition is                  *)
(* [name, data_type, unique]; data_type "Other" is any DataType the match  *)
(* at 93-100 does not list.                                                *)
(***************************************************************************)
ColumnDef(name, data_type, unique) == [name |-> name, data_type |-> data_type, unique |-> unique]

\* main.rs 93-100
ColType(data_type) ==
    CASE data_type = "Int" -> "Integer"
      [] data_type = "Float" -> "Float"
      [] data_type = "Text" -> "Text"
      [] data_type = "Boolean" -> "Bool"
      [] data_type = "Bool" -> "Bool"
      [] OTHER -> "Unsupported"

\* the loop at main.rs 91-109 from column i on; ok = FALSE is the early return at 99
RECURSIVE AddColumns(_, _, _)
AddColumns(table, columns, i) ==
    IF i > Len(columns) THEN [ok |-> TRUE, table |-> table]
    ELSE LET col == columns[i]
             col_type == ColType(col.data_type)
         IN IF col_type = "Unsupported" THEN [ok |-> FALSE, table |-> table]
            ELSE AddColumns(
                   [table EXCEPT
                      !.columns = Append(@, <<col.name, col_type>>),
                      !.unique_columns = IF col.unique THEN Append(@, col.name) ELSE @],
                   columns, i + 1)

\* a CREATE TABLE without the contains_key test of main.rs 86-88
CreateTableReplace(d, st) ==
    LET r == AddColumns(NewTable(st.name), st.columns, 1)
    IN IF ~r.ok THEN Out(d, Err("UnsupportedType"))
       ELSE Out([d EXCEPT !.tables = MapInsert(@, st.name, r.table)],
                Ok("TableCreated", 0))

CreateTable(d, st) ==
    IF st.name \in DOMAIN d.tables THEN Out(d, Err("TableExists"))
    ELSE LET r == AddColumns(NewTable(st.name), st.columns, 1)
         IN IF ~r.ok THEN Out(d, Err("UnsupportedType"))
            ELSE Out([d EXCEPT !.tables = MapInsert(@, st.name, r.table)],
                     Ok("TableCreated", 0))

(***************************************************************************)
(* INSERT (main.rs 115-189).  A statement is [table_name, values, rows]:   *)
(* values is FALSE when the source is not a VALUES list, rows is the       *)
(* sequence of value-rows, each a sequence of expressions.                 *)
(***************************************************************************)
\* derived PartialEq of Value (main.rs 16): structural, Null == Null included
ValueEq(a, b) == a = b

\* 1. convert AST to Value (main.rs 130-145)
InsertValue(expr) ==
    CASE expr.k = "Number" ->
           [res |-> NoRes,
            value |-> IF expr.dot THEN Float(expr.n) ELSE Integer(ParseI64(expr))]
      [] expr.k = "String" -> [res |-> NoRes, value |-> Text(expr.s)]
      [] expr.k = "Boolean" -> [res |-> NoRes, value |-> Bool(expr.n = 1)]
      [] expr.k = "Null" -> [res |-> NoRes, value |-> Null]
      [] expr.k = "OtherValue" -> [res |-> Err("UnsupportedValueFormat"), value |-> Null]
      [] OTHER -> [res |-> Err("UnsupportedExpressionType"), value |-> Null]

\* TypeMatches with a Text column accepting every variant
TypeMatchesAnyText(col_type, value) ==
    \/ col_type = "Integer" /\ value.t = "Integer"
    \/ col_type = "Float" /\ value.t = "Float"
    \/ col_type = "Text"
    \/ col_type = "Bool" /\ value.t = "Bool"
    \/ value.t = "Null"

\* 2. type check (main.rs 148-157)
TypeMatches(col_type, value) ==
    \/ col_type = "Integer" /\ value.t = "Integer"
    \/ col_type = "Float" /\ value.t = "Float"
    \/ col_type = "Text" /\ value.t = "Text"
    \/ col_type = "Bool" /\ value.t = "Bool"
    \/ value.t = "Null"

\* the loop over one value-row (main.rs 126-159) from expression i on;
\* res is NoRes when the row was built, the early return otherwise
RECURSIVE BuildRow(_, _, _, _)
BuildRow(columns, row_expr, i, row_data) ==
    IF i > Len(row_expr) THEN [res |-> NoRes, row_data |-> row_data]
    ELSE IF i > Len(columns) THEN [res |-> Err("ArityError"), row_data |-> row_data]
    ELSE LET col_name == columns[i][1]
             col_type == columns[i][2]
             c == InsertValue(row_expr[i])
         IN IF c.res.status = "Err" THEN [res |-> c.res, row_data |-> row_data]
            ELSE IF ~TypeMatches(col_type, c.value)
                 THEN [res |-> ErrCol("TypeMismatch", col_name, c.value),
                       row_data |-> row_data]
            ELSE BuildRow(columns, row_expr, i + 1,
                          MapInsert(row_data, col_name, c.value))

\* main.rs 164-170: some existing row holds an equal value in unique_col
HasEqual(table, unique_col, new_val) ==
    \E id \in DOMAIN table.data :
        /\ unique_col \in DOMAIN table.data[id].data
        /\ ValueEq(table.data[id].data[unique_col], new_val)

\* UniqueCheck looking at the first unique column only
UniqueCheckFirstOnly(table, row_data, u) ==
    IF u > 1 \/ Len(table.unique_columns) = 0 THEN NoRes
    ELSE LET unique_col == table.unique_columns[1]
         IN IF /\ unique_col \in DOMAIN row_data
               /\ HasEqual(table, unique_col, row_data[unique_col])
            THEN ErrCol("UniqueViolation", unique_col, row_data[unique_col])
            ELSE NoRes

\* 3. unique check (main.rs 162-172) from unique column u on
RECURSIVE UniqueCheck(_, _, _)
UniqueCheck(table, row_data, u) ==
    IF u > Len(table.unique_columns) THEN NoRes
    ELSE LET unique_col == table.unique_columns[u]
         IN IF /\ unique_col \in DOMAIN row_data
               /\ HasEqual(table, unique_col, row_data[unique_col])
            THEN ErrCol("UniqueViolation", unique_col, row_data[unique_col])
            ELSE UniqueCheck(table, row_data, u + 1)

\* a row id that is always last_id + 1, whatever the row holds under id
RowIdAuto(table, row_data, overflow_checks) ==
    IF table.last_id = U32Max
    THEN [panic |-> overflow_checks, id |-> 0]
    ELSE [panic |-> FALSE, id |-> table.last_id + 1]

\* main.rs 174-178.  last_id + 1 overflows at the greatest u32: a build
\* with overflow checks panics there, one without wraps to 0.
RowId(table, row_data, overflow_checks) ==
    IF "id" \in DOMAIN row_data /\ row_data["id"].t = "Integer"
    THEN [panic |-> FALSE, id |-> AsU32(row_data["id"].n)]
    ELSE IF table.last_id = U32Max
         THEN [panic |-> overflow_checks, id |-> 0]
         ELSE [panic |-> FALSE, id |-> table.last_id + 1]

\* StoreRow without the advance of last_id
StoreRowKeepLastId(table, row_id, row_data) ==
    [table EXCEPT !.data = MapInsert(@, row_id, Row(row_id, row_data))]

\* main.rs 179-182
StoreRow(table, row_id, row_data) ==
    [table EXCEPT
       !.last_id = IF row_id > @ THEN row_id ELSE @,
       !.data = MapInsert(@, row_id, Row(row_id, row_data))]

\* the loop over the value-rows (main.rs 122-185) from value-row j on
RECURSIVE InsertRows(_, _, _, _, _)
InsertRows(table, rows, j, count, overflow_checks) ==
    IF j > Len(rows) THEN [table |-> table, res |-> Ok("Inserted", count)]
    ELSE LET b == BuildRow(table.columns, rows[j], 1, <<>>)
             uq == UniqueCheck(table, b.row_data, 1)
             rid == RowId(table, b.row_data, overflow_checks)
         IN IF b.res.status = "Err" THEN [table |-> table, res |-> b.res]
            ELSE IF uq.status = "Err" THEN [table |-> table, res |-> uq]
            ELSE IF rid.panic THEN [table |-> table, res |-> Panic("AddOverflow")]
            ELSE InsertRows(StoreRow(table, rid.id, b.row_data), rows, j + 1,
                            count + 1, overflow_checks)

\* an INSERT that stores its value-rows only when all of them pass
InsertAllOrNothing(d, st, overflow_checks) ==
    IF st.table_name \notin DOMAIN d.tables THEN Out(d, Err("TableNotFound"))
    ELSE IF ~st.values THEN Out(d, Err("OnlyInsertValues"))
    ELSE LET r == InsertRows(d.tables[st.table_name], st.rows, 1, 0, overflow_checks)
         IN IF r.res.status = "Ok"
            THEN Out([d EXCEPT !.tables[st.table_name] = r.table], r.res)
            ELSE Out(d, r.res)

Insert(d, st, overflow_checks) ==
    IF st.table_name \notin DOMAIN d.tables THEN Out(d, Err("TableNotFound"))
    ELSE IF ~st.values THEN Out(d, Err("OnlyInsertValues"))
    ELSE LET r == InsertRows(d.tables[st.table_name], st.rows, 1, 0, overflow_checks)
         IN Out([d EXCEPT !.tables[st.table_name] = r.table], r.res)

(***************************************************************************)
(* SELECT (main.rs 192-307).  A query is [body, from, projection]: body is *)
(* "Select" or "Other" (any other SetExpr); from is a sequence of          *)
(* [relation, joins]; a relation is [table, name] with table = FALSE for   *)
(* any TableFactor but a plain table; a join is [relation, inner_on_eq,    *)
(* left, right] with inner_on_eq = TRUE for INNER JOIN .. ON left = right; *)
(* a projection item is [k, s], k "Wildcard", "Identifier" or "Other".     *)
(***************************************************************************)
Relation(name) == [table |-> TRUE, name |-> name]
Join(name, left, right) ==
    [relation |-> Relation(name), inner_on_eq |-> TRUE, left |-> left, right |-> right]
Item(k, s) == [k |-> k, s |-> s]
CompoundIdentifier(last) == [k |-> "CompoundIdentifier", n |-> 0, dot |-> FALSE, s |-> last]

\* extract_col (main.rs 211-217); "" stands for None.  A compound
\* identifier is held by its last segment.
ExtractCol(expr) ==
    IF expr.k \in {"Identifier", "CompoundIdentifier"} THEN expr.s ELSE ""

\* format!("{:?}", value) with the derived Debug (main.rs 16, 242-243)
DebugFmt(v) ==
    CASE v.t = "Integer" -> "Integer(" \o ToString(v.n) \o ")"
      [] v.t = "Float" -> "Float(" \o ToString(v.n) \o ".5)"
      [] v.t = "Text" -> "Text(\"" \o v.s \o "\")"
      [] v.t = "Bool" -> IF v.n = 1 THEN "Bool(true)" ELSE "Bool(false)"
      [] OTHER -> "Null"

\* main.rs 290-296
DisplayFmt(v) ==
    CASE v.t = "Integer" -> ToString(v.n)
      [] v.t = "Float" -> ToString(v.n) \o ".5"
      [] v.t = "Text" -> v.s
      [] v.t = "Bool" -> IF v.n = 1 THEN "true" ELSE "false"
      [] OTHER -> "NULL"

\* main.rs 228-229: the headers of one table, qualified by its name
Headers(name, table) ==
    [c \in 1..Len(table.columns) |-> name \o "." \o table.columns[c][1]]

\* main.rs 242-243: the cells of one row, in schema order
DebugCells(table, row) ==
    [c \in 1..Len(table.columns) |-> DebugFmt(GetOrNull(row.data, table.columns[c][1]))]

\* JoinMatches without the test for Null
JoinMatchesNull(l_val, r_val) == ValueEq(l_val, r_val)

\* main.rs 237-245: the test of one pair and the line it pushes
JoinMatches(l_val, r_val) == l_val # Null /\ ValueEq(l_val, r_val)

JoinLine(left_table, left_row, right_table, right_row) ==
    DebugCells(left_table, left_row) \o DebugCells(right_table, right_row)

\* the inner loop (main.rs 236-246) from the j-th right row on
RECURSIVE JoinInner(_, _, _, _, _, _, _)
JoinInner(left_table, left_row, right_table, rids, j, l, r) ==
    IF j > Len(rids) THEN <<>>
    ELSE LET right_row == right_table.data[rids[j]]
             l_val == GetOrNull(left_row.data, l)
             r_val == GetOrNull(right_row.data, r)
             rest == JoinInner(left_table, left_row, right_table, rids, j + 1, l, r)
         IN IF JoinMatches(l_val, r_val)
            THEN <<JoinLine(left_table, left_row, right_table, right_row)>> \o rest
            ELSE rest

\* the outer loop (main.rs 235-247) from the i-th left row on
RECURSIVE JoinOuter(_, _, _, _, _, _)
JoinOuter(left_table, lids, i, right_table, l, r) ==
    IF i > Len(lids) THEN <<>>
    ELSE JoinInner(left_table, left_table.data[lids[i]], right_table,
                   SortedKeys(DOMAIN right_table.data), 1, l, r)
         \o JoinOuter(left_table, lids, i + 1, right_table, l, r)

\* the join branch (main.rs 201-248)
SelectJoin(d, left_table_name, join) ==
    LET left_table == d.tables[left_table_name]
        right_table_name == join.relation.name
        right_table == d.tables[right_table_name]
        l == ExtractCol(join.left)
        r == ExtractCol(join.right)
    IN IF ~join.relation.table THEN Err("UnsupportedSource")
       ELSE IF right_table_name \notin DOMAIN d.tables THEN Err("TableNotFound")
       ELSE IF ~join.inner_on_eq THEN Err("UnsupportedJoin")
       ELSE IF l = "" \/ r = "" THEN Err("UnsupportedJoin")
       ELSE OkLines(<<Headers(left_table_name, left_table)
                        \o Headers(right_table_name, right_table)>>
                    \o JoinOuter(left_table, SortedKeys(DOMAIN left_table.data), 1,
                                 right_table, l, r))

ColumnNames(table) == {table.columns[c][1] : c \in 1..Len(table.columns)}
AllColumns(table) == [c \in 1..Len(table.columns) |-> table.columns[c][1]]

\* the projection loop (main.rs 257-275) from item i on
RECURSIVE TargetColumns(_, _, _, _)
TargetColumns(table, projection, i, target_columns) ==
    IF i > Len(projection) THEN [res |-> NoRes, cols |-> target_columns]
    ELSE LET item == projection[i]
         IN CASE item.k = "Wildcard" -> [res |-> NoRes, cols |-> AllColumns(table)]
              [] item.k = "Identifier" ->
                   IF item.s \in ColumnNames(table)
                   THEN TargetColumns(table, projection, i + 1, Append(target_columns, item.s))
                   ELSE [res |-> ErrCol("ColumnNotFound", item.s, Null), cols |-> <<>>]
              [] OTHER -> [res |-> Err("UnsupportedProjection"), cols |-> <<>>]

\* main.rs 286-301: one line per row, the row id first
DisplayLine(row, target_columns) ==
    <<ToString(row.id)>>
    \o [c \in 1..Len(target_columns) |-> DisplayFmt(GetOrNull(row.data, target_columns[c]))]

\* the branch without a join (main.rs 251-302)
SelectPlain(table, projection) ==
    LET t == TargetColumns(table, projection, 1, <<>>)
        ids == SortedKeys(DOMAIN table.data)
    IN IF t.res.status = "Err" THEN t.res
       ELSE OkLines(<<(<<"ID">> \o t.cols)>>
                    \o [i \in 1..Len(ids) |-> DisplayLine(table.data[ids[i]], t.cols)])

\* db is borrowed immutably (db.tables.get): the database is returned as it came
\* a SELECT that looks its source table up with entry().or_insert_with:
\* a table that does not exist is created empty
SelectCreating(d, st) ==
    IF st.body # "Select" THEN Out(d, Err("OnlySelect"))
    ELSE IF Len(st.from) = 0 THEN Out(d, Panic("IndexOutOfBounds"))
    ELSE IF ~st.from[1].relation.table THEN Out(d, Err("UnsupportedSource"))
    ELSE IF st.from[1].relation.name \notin DOMAIN d.tables
         THEN Out([d EXCEPT !.tables = MapInsert(@, st.from[1].relation.name,
                                                 NewTable(st.from[1].relation.name))],
                  Err("TableNotFound"))
    ELSE IF Len(st.from[1].joins) > 0
         THEN Out(d, SelectJoin(d, st.from[1].relation.name, st.from[1].joins[1]))
    ELSE Out(d, SelectPlain(d.tables[st.from[1].relation.name], st.projection))

Select(d, st) ==
    IF st.body # "Select" THEN Out(d, Err("OnlySelect"))
    ELSE IF Len(st.from) = 0 THEN Out(d, Panic("IndexOutOfBounds"))
    ELSE IF ~st.from[1].relation.table THEN Out(d, Err("UnsupportedSource"))
    ELSE IF st.from[1].relation.name \notin DOMAIN d.tables THEN Out(d, Err("TableNotFound"))
    ELSE IF Len(st.from[1].joins) > 0
         THEN Out(d, SelectJoin(d, st.from[1].relation.name, st.from[1].joins[1]))
    ELSE Out(d, SelectPlain(d.tables[st.from[1].relation.name], st.projection))

(***************************************************************************)
(* WHERE clauses as DELETE and UPDATE match them (main.rs 328, 362): a     *)
(* selection is [k, left, right], k "None" (no WHERE), "BinaryEq"          *)
(* (left = right) or "Other" (any other expression).                       *)
(***************************************************************************)
NoSelection == [k |-> "None", left |-> OtherExpr, right |-> OtherExpr]
BinaryEq(left, right) == [k |-> "BinaryEq", left |-> left, right |-> right]
OtherSelection == [k |-> "Other", left |-> OtherExpr, right |-> OtherExpr]

\* str::to_lowercase on the column names the model uses
ToLower(str) == IF str \in {"ID", "Id", "iD"} THEN "id" ELSE str

\* main.rs 328-341 and 362-368: the id a WHERE clause selects, or the failure
WhereId(selection) ==
    IF selection.k # "BinaryEq" THEN [res |-> Err("MissingWhereClause"), id |-> 0]
    ELSE IF selection.left.k # "Identifier"
         THEN [res |-> Err("UnsupportedPredicate"), id |-> 0]
    ELSE IF ToLower(selection.left.s) # "id"
         THEN [res |-> Err("UnsupportedPredicate"), id |-> 0]
    ELSE IF selection.right.k # "Number"
         THEN [res |-> Err("UnsupportedPredicate"), id |-> 0]
    ELSE [res |-> NoRes, id |-> ParseU32(selection.right)]

(***************************************************************************)
(* DELETE (main.rs 310-351).  A statement is [from, tables, selection]:    *)
(* from a sequence of [relation, joins], tables a sequence of names.       *)
(***************************************************************************)
\* main.rs 314-323; name "" with res set is the early return
DeleteTableName(st) ==
    IF Len(st.from) > 0
    THEN IF st.from[1].relation.table
         THEN [res |-> NoRes, name |-> st.from[1].relation.name]
         ELSE [res |-> Err("UnsupportedSource"), name |-> ""]
    ELSE IF Len(st.tables) > 0 THEN [res |-> NoRes, name |-> st.tables[1]]
    ELSE [res |-> Err("NoTableSpecified"), name |-> ""]

Delete(d, st) ==
    LET tn == DeleteTableName(st)
        w == WhereId(st.selection)
    IN IF tn.res.status = "Err" THEN Out(d, tn.res)
       ELSE IF tn.name \notin DOMAIN d.tables THEN Out(d, Err("TableNotFound"))
       ELSE IF w.res.status = "Err" THEN Out(d, w.res)
       ELSE IF w.id \in DOMAIN d.tables[tn.name].data
            THEN Out([d EXCEPT !.tables[tn.name].data = MapRemove(@, w.id)],
                     Ok("Deleted", w.id))
       ELSE Out(d, ErrId("RowNotFound", w.id))

(***************************************************************************)
(* UPDATE (main.rs 354-390).  A statement is [table, assignments,          *)
(* selection]: table a relation, an assignment [id, value] with id the     *)
(* first segment of the assigned name.                                     *)
(***************************************************************************)
Assignment(col, value) == [id |-> col, value |-> value]

\* a conversion that rejects every literal it does not recognize
UpdateValueStrict(expr) ==
    CASE expr.k = "Number" ->
           [res |-> NoRes,
            value |-> IF expr.dot THEN Float(expr.n) ELSE Integer(ParseI64(expr))]
      [] expr.k = "String" -> [res |-> NoRes, value |-> Text(expr.s)]
      [] expr.k = "Boolean" -> [res |-> NoRes, value |-> Bool(expr.n = 1)]
      [] OTHER -> [res |-> Err("UnsupportedValue"), value |-> Null]

\* main.rs 376-384: res set is the early return at 383
UpdateValue(expr) ==
    CASE expr.k = "Number" ->
           [res |-> NoRes,
            value |-> IF expr.dot THEN Float(expr.n) ELSE Integer(ParseI64(expr))]
      [] expr.k = "String" -> [res |-> NoRes, value |-> Text(expr.s)]
      [] expr.k = "Boolean" -> [res |-> NoRes, value |-> Bool(expr.n = 1)]
      [] expr.k \in {"Null", "OtherValue"} -> [res |-> NoRes, value |-> Null]
      [] OTHER -> [res |-> Err("UnsupportedValue"), value |-> Null]

\* the loop at main.rs 374-388 from assignment i on, writing into the stored row
RECURSIVE ApplyAssignments(_, _, _, _)
ApplyAssignments(row, assignments, i, id_val) ==
    IF i > Len(assignments) THEN [row |-> row, res |-> Ok("Updated", id_val)]
    ELSE LET c == UpdateValue(assignments[i].value)
         IN IF c.res.status = "Err" THEN [row |-> row, res |-> c.res]
            ELSE ApplyAssignments(
                   [row EXCEPT !.data = MapInsert(@, assignments[i].id, c.value)],
                   assignments, i + 1, id_val)

Update(d, st) ==
    LET name == st.table.name
        w == WhereId(st.selection)
    IN IF ~st.table.table THEN Out(d, Err("UnsupportedSource"))
       ELSE IF name \notin DOMAIN d.tables THEN Out(d, Err("TableNotFound"))
       ELSE IF w.res.status = "Err" THEN Out(d, w.res)
       ELSE IF w.id \notin DOMAIN d.tables[name].data
            THEN Out(d, ErrId("RowNotFound", w.id))
       ELSE LET r == ApplyAssignments(d.tables[name].data[w.id], st.assignments, 1, w.id)
            IN Out([d EXCEPT !.tables[name].data[w.id] = r.row], r.res)

\* any other statement kind (main.rs 392)
Unsupported(d) == Out(d, Err("UnsupportedStatement"))

\* process_command (main.rs 81-394): the match over the statement kind
ProcessCommand(d, st, overflow_checks) ==
    CASE st.kind = "CreateTable" -> CreateTable(d, st)
      [] st.kind = "Insert" -> Insert(d, st, overflow_checks)
      [] st.kind = "Query" -> Select(d, st)
      [] st.kind = "Delete" -> Delete(d, st)
      [] st.kind = "Update" -> Update(d, st)
      [] OTHER -> Unsupported(d)

(***************************************************************************)
(* The statements the front-ends hand to the executor: small sets of       *)
(* parsed statements over two table names.                                 *)
(***************************************************************************)
TableNames == {"a", "b"}

\* (id INT, email TEXT UNIQUE)
Users == <<ColumnDef("id", "Int", FALSE), ColumnDef("email", "Text", TRUE)>>
\* (email TEXT UNIQUE, ref INT UNIQUE)
Refs == <<ColumnDef("email", "Text", TRUE), ColumnDef("ref", "Int", TRUE)>>
\* (id INT, at TIMESTAMP)
Stamped == <<ColumnDef("id", "Int", FALSE), ColumnDef("at", "Other", FALSE)>>

CreateTableStmts ==
    { [kind |-> "CreateTable", name |-> "a", columns |-> Users],
      [kind |-> "CreateTable", name |-> "b", columns |-> Refs],
      [kind |-> "CreateTable", name |-> "b", columns |-> Stamped] }

\* value-rows for a: (1, 'x'), (1, NULL), (max u32, 'y'), (2^32, 'y'), (NULL, NULL),
\* ('x'), (1, 'x', TRUE), (f(), 1), (1, N'x')
ValueRowsA ==
    { <<Number(1), String("x")>>,
      <<Number(1), NullLit>>,
      <<Number(U32Max), String("y")>>,
      <<Number(U32Mod), String("y")>>,
      <<NullLit, NullLit>>,
      <<String("x")>>,
      <<Number(1), String("x"), Boolean(TRUE)>>,
      <<OtherExpr, Number(1)>>,
      <<Number(1), OtherValue>> }

\* multi-row statements for a
RowListsA ==
    { << <<Number(1), String("x")>>, <<Number(U32Max), String("y")>> >>,
      << <<Number(1), String("x")>>, <<Number(U32Max), String("x")>> >>,
      << <<Number(1), NullLit>>, <<Number(U32Max), String("x")>> >>,
      << <<NullLit, NullLit>>, <<NullLit, NullLit>> >> }

\* value-rows for b: ('x', 1), ('y', 1), (NULL, 1), (1, 'x')
ValueRowsB ==
    { <<String("x"), Number(1)>>,
      <<String("y"), Number(1)>>,
      <<NullLit, Number(1)>>,
      <<Number(1), String("x")>> }

RowListsB ==
    { << <<String("x"), Number(1)>>, <<String("y"), Number(1)>> >>,
      << <<String("x"), Number(1)>>, <<Number(1), String("x")>> >> }

InsertStmts ==
    [kind : {"Insert"}, table_name : {"a"}, values : {TRUE},
     rows : {<<r>> : r \in ValueRowsA} \cup RowListsA]
    \cup [kind : {"Insert"}, table_name : {"b"}, values : {TRUE},
          rows : {<<r>> : r \in ValueRowsB} \cup RowListsB]
    \cup [kind : {"Insert"}, table_name : {"a"}, values : {FALSE}, rows : {<<>>}]

From(name, joins) == <<[relation |-> Relation(name), joins |-> joins]>>

\* SELECT * / email / ref, * / f() FROM a;  SELECT * FROM b;  SELECT 1;  VALUES (1);
\* SELECT * FROM a JOIN b ON a.email = b.email;  .. FROM b JOIN a ON ref = id;
\* .. FROM a JOIN a ON a.email = a.email;  .. FROM a JOIN b ON id = 1
QueryStmts ==
    [kind : {"Query"}, body : {"Select"}, from : {From("a", <<>>)},
     projection : { <<Item("Wildcard", "")>>, <<Item("Identifier", "email")>>,
                    <<Item("Identifier", "ref"), Item("Wildcard", "")>>,
                    <<Item("Other", "")>> }]
    \cup [kind : {"Query"}, body : {"Select"}, from : {From("b", <<>>)},
          projection : {<<Item("Wildcard", "")>>}]
    \cup [kind : {"Query"}, body : {"Select", "Other"}, from : {<<>>},
          projection : {<<Item("Other", "")>>}]
    \cup [kind : {"Query"}, body : {"Select"},
          from : { From("a", <<Join("b", CompoundIdentifier("email"), CompoundIdentifier("email"))>>),
                   From("b", <<Join("a", Identifier("ref"), Identifier("id"))>>),
                   From("a", <<Join("a", CompoundIdentifier("email"), CompoundIdentifier("email"))>>),
                   From("a", <<Join("b", Identifier("id"), Number(1))>>) },
          projection : {<<Item("Wildcard", "")>>}]

\* WHERE ID = 1 / id = 2^32 / id = 1.5
RowSelections ==
    { BinaryEq(Identifier("ID"), Number(1)),
      BinaryEq(Identifier("id"), Number(U32Mod)),
      BinaryEq(Identifier("id"), NumberDot(1)) }

\* WHERE email = 1 / id = 'x' / f() = 1, no WHERE, WHERE id > 1
BadSelections ==
    { BinaryEq(Identifier("email"), Number(1)),
      BinaryEq(Identifier("id"), String("x")),
      BinaryEq(OtherExpr, Number(1)),
      NoSelection, OtherSelection }

DeleteStmts ==
    [kind : {"Delete"}, from : {From("a", <<>>)}, tables : {<<>>},
     selection : RowSelections \cup BadSelections]
    \cup [kind : {"Delete"}, from : {From("b", <<>>)}, tables : {<<>>},
          selection : {BinaryEq(Identifier("ID"), Number(1))}]
    \cup [kind : {"Delete"}, from : {<<>>}, tables : {<<>>, <<"a">>},
          selection : {BinaryEq(Identifier("ID"), Number(1))}]

\* SET email = 'y' / email = 1.5 / email = N'x' / email = N'x', id = f()
AssignmentLists ==
    { <<Assignment("email", String("y"))>>,
      <<Assignment("email", NumberDot(1))>>,
      <<Assignment("email", OtherValue)>>,
      <<Assignment("email", OtherValue), Assignment("id", OtherExpr)>> }

UpdateStmts ==
    [kind : {"Update"}, table : {Relation("a")},
     assignments : AssignmentLists, selection : RowSelections]
    \cup [kind : {"Update"}, table : {Relation("b")},
          assignments : {<<Assignment("email", String("x"))>>},
          selection : {BinaryEq(Identifier("ID"), Number(1))}]
    \cup [kind : {"Update"}, table : {Relation("a")},
          assignments : {<<Assignment("email", String("x"))>>}, selection : BadSelections]

NoStmt == [kind |-> "None"]

(***************************************************************************)
(* The state machine                                                       *)
(***************************************************************************)
Requests == 1..MaxRequests

\* a request slot of the server with no request in flight
NoRequest == [pc |-> "idle", stmt |-> NoStmt, res |-> NoRes]

\* main (main.rs 432, 447) with no snapshot file yet
Started ==
    /\ disk = NoFile
    /\ db = LoadOrNew(disk)
    /\ stmt = NoStmt
    /\ res = NoRes
    /\ prev = db
    /\ writes_failed = 0
    /\ lock = 0
    /\ poisoned = FALSE
    /\ req = [r \in Requests |-> NoRequest]

Init == Started /\ pc = "idle"

\* the front-end calls process_command(db, st) (main.rs 411, 467) and holds
\* what it returned; a panic unwinds out of the front-end
Executed(st, out) ==
    /\ db' = out.db
    /\ res' = out.res
    /\ stmt' = st
    /\ prev' = db
    /\ pc' = IF out.res.status = "Panic" THEN "aborted" ELSE "executed"
    /\ UNCHANGED <<disk, writes_failed, lock, poisoned, req>>

\* the rows of all tables of d
RECURSIVE RowCount(_, _)
RowCount(d, names) ==
    IF names = {} THEN 0
    ELSE LET t == CHOOSE x \in names : TRUE
         IN Cardinality(DOMAIN d.tables[t].data) + RowCount(d, names \ {t})

RowsWithin(d) == RowCount(d, DOMAIN d.tables) <= MaxRows

CreateTableStmt ==
    /\ pc = "idle"
    /\ \E st \in CreateTableStmts : Executed(st, CreateTable(db, st))

InsertStmt ==
    /\ pc = "idle"
    /\ \E st \in InsertStmts, overflow_checks \in BOOLEAN :
          LET out == Insert(db, st, overflow_checks)
          IN RowsWithin(out.db) /\ Executed(st, out)

QueryStmt ==
    /\ pc = "idle"
    /\ \E st \in QueryStmts : Executed(st, Select(db, st))

DeleteStmt ==
    /\ pc = "idle"
    /\ \E st \in DeleteStmts : Executed(st, Delete(db, st))

UpdateStmt ==
    /\ pc = "idle"
    /\ \E st \in UpdateStmts : Executed(st, Update(db, st))

OtherStmt == pc = "idle" /\ Executed([kind |-> "Other"], Unsupported(db))

\* one call of save_to_disk on the database as it stands, with the outcome
\* io of the file system; writes_failed counts the failed writes since the
\* last one that succeeded
Save(io) ==
    /\ io # "ok" => writes_failed < MaxWriteFailures
    /\ disk' = SaveToDisk(disk, db, io).disk
    /\ writes_failed' = IF io = "ok" THEN 0 ELSE writes_failed + 1

\* the outcomes explored for the shell's save after each statement; a
\* failing File::create is explored at exit and in the server
AutoSaveOutcomes == {"ok", "write_failed"}

\* the shell prints the result and, after Ok only, saves and ignores the
\* save's result (main.rs 468-473); the statement and its result go out of
\* scope
Respond ==
    /\ pc = "executed"
    /\ IF res.status = "Ok" THEN \E io \in AutoSaveOutcomes : Save(io)
       ELSE UNCHANGED <<disk, writes_failed>>
    /\ pc' = "idle"
    /\ stmt' = NoStmt
    /\ res' = NoRes
    /\ prev' = db
    /\ UNCHANGED <<db, lock, poisoned, req>>

\* the line "exit": save_to_disk().expect("Failed to save"), then the loop
\* ends (main.rs 457-460)
Exit ==
    /\ pc = "idle"
    /\ \E io \in IoOutcomes :
          Save(io) /\ pc' = IF io = "ok" THEN "exited" ELSE "aborted"
    /\ UNCHANGED <<db, stmt, res, prev, lock, poisoned, req>>

Next ==
    \/ CreateTableStmt
    \/ InsertStmt
    \/ QueryStmt
    \/ DeleteStmt
    \/ UpdateStmt
    \/ OtherStmt
    \/ Respond
    \/ Exit

Spec == Init /\ [][Next]_vars

(***************************************************************************)
(* The HTTP front-end (main.rs 398-422, 431-444).  Each request slot runs  *)
(* query_endpoint: the body is parsed ("parsed"), the handler takes the    *)
(* Mutex ("locked"), runs process_command on the guarded Database          *)
(* ("executed"), saves after Ok ("saved") and drops the guard when it      *)
(* returns the response.  lock is the slot holding the Mutex, 0 when it is *)
(* free; a panic while the guard is held poisons the Mutex.                *)
(***************************************************************************)
\* CREATE TABLE a ..;  INSERT INTO a VALUES (1, 'x') / (max u32, 'y') /
\* (NULL, NULL) / (1, 'x'), (max u32, 'x');  SELECT * FROM a;  SELECT 1;
\* DELETE FROM a WHERE ID = 1;  UPDATE a SET email = 'y' WHERE ID = 1; an
\* unsupported statement
ServerStmts ==
    {st \in CreateTableStmts : st.name = "a"}
    \cup {st \in InsertStmts :
             /\ st.table_name = "a"
             /\ st.rows \in { << <<Number(1), String("x")>> >>,
                               << <<Number(U32Max), String("y")>> >>,
                               << <<NullLit, NullLit>> >>,
                               << <<Number(1), String("x")>>,
                                  <<Number(U32Max), String("x")>> >> }}
    \cup {st \in QueryStmts :
             /\ st.body = "Select"
             /\ st.from \in {<<>>, From("a", <<>>)}
             /\ st.projection \in {<<Item("Wildcard", "")>>, <<Item("Other", "")>>}}
    \cup {st \in DeleteStmts :
             /\ st.from = From("a", <<>>)
             /\ st.selection = BinaryEq(Identifier("ID"), Number(1))}
    \cup {st \in UpdateStmts :
             /\ st.table = Relation("a")
             /\ st.assignments = <<Assignment("email", String("y"))>>
             /\ st.selection = BinaryEq(Identifier("ID"), Number(1))}
    \cup {[kind |-> "Other"]}

ServerInit == Started /\ pc = "serving"

\* a request arrives and its body is parsed (main.rs 399-401); NoStmt is a
\* body that parses to no statement
Receive(r) ==
    /\ req[r].pc = "idle"
    /\ \E st \in ServerStmts \cup {NoStmt} :
          req' = [req EXCEPT ![r] = [pc |-> "parsed", stmt |-> st, res |-> NoRes]]
    /\ UNCHANGED <<db, pc, stmt, res, prev, disk, writes_failed, lock, poisoned>>

\* "Empty query" (main.rs 405): answered without taking the Mutex
EmptyQuery(r) ==
    /\ req[r].pc = "parsed"
    /\ req[r].stmt = NoStmt
    /\ req' = [req EXCEPT ![r] = NoRequest]
    /\ UNCHANGED <<db, pc, stmt, res, prev, disk, writes_failed, lock, poisoned>>

\* a handler that takes the guard without waiting for the Mutex to be free
LockNoWait(r) ==
    /\ req[r].pc = "parsed"
    /\ req[r].stmt # NoStmt
    /\ req' = [req EXCEPT ![r].pc = "locked"]
    /\ lock' = r
    /\ UNCHANGED <<db, pc, stmt, res, prev, disk, writes_failed, poisoned>>

\* db.lock().unwrap() (main.rs 408): waits until the Mutex is free; on a
\* poisoned Mutex lock() returns Err, the unwrap panics and the guard is
\* dropped again
Lock(r) ==
    /\ req[r].pc = "parsed"
    /\ req[r].stmt # NoStmt
    /\ lock = 0
    /\ IF poisoned
       THEN /\ req' = [req EXCEPT ![r].pc = "panicked"]
            /\ UNCHANGED lock
       ELSE /\ req' = [req EXCEPT ![r].pc = "locked"]
            /\ lock' = r
    /\ UNCHANGED <<db, pc, stmt, res, prev, disk, writes_failed, poisoned>>

\* process_command(&mut *db_guard, &statements[0]) (main.rs 410); a panic
\* unwinds through the handler, which drops the guard and poisons the Mutex
Execute(r) ==
    /\ req[r].pc = "locked"
    /\ \E overflow_checks \in BOOLEAN :
          LET out == ProcessCommand(db, req[r].stmt, overflow_checks)
          IN /\ RowsWithin(out.db)
             /\ db' = out.db
             /\ IF out.res.status = "Panic"
                THEN /\ req' = [req EXCEPT ![r].pc = "panicked", ![r].res = out.res]
                     /\ lock' = 0
                     /\ poisoned' = TRUE
                ELSE /\ req' = [req EXCEPT ![r].pc = "executed", ![r].res = out.res]
                     /\ UNCHANGED <<lock, poisoned>>
    /\ UNCHANGED <<pc, stmt, res, prev, disk, writes_failed>>

\* let _ = db_guard.save_to_disk() in the Ok arm (main.rs 412-414)
AutoSave(r) ==
    /\ req[r].pc = "executed"
    /\ req[r].res.status = "Ok"
    /\ \E io \in IoOutcomes : Save(io)
    /\ req' = [req EXCEPT ![r].pc = "saved"]
    /\ UNCHANGED <<db, pc, stmt, res, prev, lock, poisoned>>

\* the response is built and the handler returns, dropping db_guard
\* (main.rs 415-418): after the save in the Ok arm, at once in the Err arm
Unlock(r) ==
    /\ \/ req[r].pc = "saved"
       \/ req[r].pc = "executed" /\ req[r].res.status = "Err"
    /\ lock' = 0
    /\ req' = [req EXCEPT ![r] = NoRequest]
    /\ UNCHANGED <<db, pc, stmt, res, prev, disk, writes_failed, poisoned>>

\* a handler that panicked is gone; its slot takes the next request
Unwind(r) ==
    /\ req[r].pc = "panicked"
    /\ req' = [req EXCEPT ![r] = NoRequest]
    /\ UNCHANGED <<db, pc, stmt, res, prev, disk, writes_failed, lock, poisoned>>

ServerNext ==
    \E r \in Requests :
       \/ Receive(r)
       \/ EmptyQuery(r)
       \/ Lock(r)
       \/ Execute(r)
       \/ AutoSave(r)
       \/ Unlock(r)
       \/ Unwind(r)

ServerSpec == ServerInit /\ [][ServerNext]_vars

(***************************************************************************)
(* Properties.  In a state with pc = "executed", stmt is the statement     *)
(* process_command ran, res what it returned, prev the database it was     *)
(* given and db the database it left.                                      *)
(***************************************************************************)
Ran(kind) == pc = "executed" /\ stmt.kind = kind

Failed == res.status = "Err"
Succeeded == res.status = "Ok"

RowIds(table) == DOMAIN table.data

\* the unique-flagged columns of a table
UniqueSet(table) == {table.unique_columns[u] : u \in 1..Len(table.unique_columns)}

\* the declared type of a column
DeclaredTypes(table, column) ==
    {table.columns[c][2] : c \in {x \in 1..Len(table.columns) : table.columns[x][1] = column}}

\* C1: in every table and for every unique-flagged column, no two distinct
\* rows hold equal non-Null values in that column.
C1_UniqueColumnsDistinct ==
    \A t \in DOMAIN db.tables :
        \A u \in UniqueSet(db.tables[t]) :
            \A i, j \in RowIds(db.tables[t]) :
                LET ri == db.tables[t].data[i].data
                    rj == db.tables[t].data[j].data
                IN (i # j /\ u \in DOMAIN ri /\ u \in DOMAIN rj /\ ri[u] # Null)
                       => ri[u] # rj[u]

\* C2: every value stored under a declared column is Null or of the variant
\* of the column's declared type.
C2_ValuesMatchDeclaredType ==
    \A t \in DOMAIN db.tables :
        \A i \in RowIds(db.tables[t]) :
            \A c \in DOMAIN db.tables[t].data[i].data :
                \A ty \in DeclaredTypes(db.tables[t], c) :
                    db.tables[t].data[i].data[c].t \in {"Null", ty}

\* C3: last_id is at least the id of every row of the table, and a
\* statement never lowers the last_id of a table.
C3_LastIdBoundsAndGrows ==
    /\ \A t \in DOMAIN db.tables :
           \A i \in RowIds(db.tables[t]) :
               /\ db.tables[t].data[i].id = i
               /\ i <= db.tables[t].last_id
    /\ \A t \in DOMAIN prev.tables :
           /\ t \in DOMAIN db.tables
           /\ prev.tables[t].last_id <= db.tables[t].last_id

\* a DELETE removed the row with the greatest id and last_id stayed above the rows left
C3_Witness ==
    /\ Ran("Delete") /\ Succeeded
    /\ \E t \in DOMAIN db.tables :
           /\ res.n \in RowIds(prev.tables[t]) \ RowIds(db.tables[t])
           /\ db.tables[t].last_id = res.n
           /\ res.n > 0

\* the value-row that fails, when run alone against the table, fails
FailsOnFirstRow(d, st) ==
    \/ st.table_name \notin DOMAIN d.tables
    \/ ~st.values
    \/ InsertRows(d.tables[st.table_name], <<st.rows[1]>>, 1, 0, FALSE).res.status = "Err"

\* C4: a CREATE TABLE, SELECT, UPDATE or DELETE that returns a failure, and
\* an INSERT that fails on its first value-row, leaves the database as it
\* was; a failed UPDATE has applied none of its assignments.
C4_FailureLeavesDatabaseUnchanged ==
    ( /\ pc = "executed"
      /\ Failed
      /\ \/ stmt.kind \in {"CreateTable", "Query", "Update", "Delete"}
         \/ stmt.kind = "Insert" /\ FailsOnFirstRow(prev, stmt) )
    => db = prev

(***************************************************************************)
(* INSERT, declaratively: what a value-row supplies to a table             *)
(***************************************************************************)
LiteralKinds == {"Number", "String", "Boolean", "Null"}

\* the positions of a value-row that have a column
Positions(table, row) == {c \in 1..Len(row) : c <= Len(table.columns)}

\* the value-row fits the table: no more values than columns, every
\* expression a literal, every non-Null literal of the column's variant
RowValid(table, row) ==
    /\ Len(row) <= Len(table.columns)
    /\ \A c \in 1..Len(row) :
           /\ row[c].k \in LiteralKinds
           /\ InsertValue(row[c]).value.t \in {"Null", table.columns[c][2]}

\* the value-row supplies in column u a non-Null value that a row of the table holds in u
SuppliesDuplicate(table, row, u) ==
    \E c \in Positions(table, row) :
        /\ table.columns[c][1] = u
        /\ row[c].k \in LiteralKinds \ {"Null"}
        /\ \E i \in RowIds(table) :
               /\ u \in DOMAIN table.data[i].data
               /\ table.data[i].data[u] = InsertValue(row[c]).value

\* u is the k-th unique column of the table
UniqueAt(table, k, u) == k \in 1..Len(table.unique_columns) /\ table.unique_columns[k] = u

Mismatch(table, row, c) ==
    /\ c \in Positions(table, row)
    /\ row[c].k \in LiteralKinds \ {"Null"}
    /\ InsertValue(row[c]).value.t # table.columns[c][2]

\* the data of a row built from the first m values of a value-row
PrefixData(table, row, m) ==
    [col \in {table.columns[c][1] : c \in 1..m} |->
        InsertValue(row[CHOOSE c \in 1..m : table.columns[c][1] = col]).value]

\* the statement stored (added or replaced) a row built from value-row j
StoredFrom(j) ==
    LET old == prev.tables[stmt.table_name]
        new == db.tables[stmt.table_name]
    IN \E i \in RowIds(new) :
           /\ i \notin RowIds(old) \/ old.data[i] # new.data[i]
           /\ \E m \in 1..Cardinality(Positions(old, stmt.rows[j])) :
                  /\ \A c \in 1..m : stmt.rows[j][c].k \in LiteralKinds
                  /\ new.data[i].data = PrefixData(old, stmt.rows[j], m)

\* the value-rows before the j-th are all stored without a failure
EarlierRowsOk(j) ==
    InsertRows(prev.tables[stmt.table_name], SubSeq(stmt.rows, 1, j - 1), 1, 0, FALSE)
        .res.status = "Ok"

\* C6 as claimed: an INSERT with a value-row holding a type-mismatched value
\* fails with a type-mismatch error and stores no row built from that value-row.
C6_MismatchAlwaysTypeMismatch ==
    (Ran("Insert") /\ stmt.table_name \in DOMAIN prev.tables)
    => \A j \in 1..Len(stmt.rows) :
           (\E c \in 1..Len(stmt.rows[j]) :
                Mismatch(prev.tables[stmt.table_name], stmt.rows[j], c))
           => /\ Failed
              /\ res.msg = "TypeMismatch"
              /\ ~StoredFrom(j)

\* C6 (amended): such an INSERT fails and stores no row built from that
\* value-row; the failure is a type mismatch naming the first mismatched
\* column when no earlier value-row fails and every expression before that
\* value in the row is a supported literal.
C6_MismatchRejected ==
    (Ran("Insert") /\ stmt.table_name \in DOMAIN prev.tables)
    => LET table == prev.tables[stmt.table_name]
       IN \A j \in 1..Len(stmt.rows) :
              \A c \in 1..Len(stmt.rows[j]) :
                  ( /\ Mismatch(table, stmt.rows[j], c)
                    /\ \A b \in 1..(c - 1) : ~Mismatch(table, stmt.rows[j], b) )
                  => /\ Failed
                     /\ ~StoredFrom(j)
                     /\ ( /\ EarlierRowsOk(j)
                          /\ \A b \in 1..(c - 1) : stmt.rows[j][b].k \in LiteralKinds )
                        => /\ res.msg = "TypeMismatch"
                           /\ res.col = table.columns[c][1]
                           /\ res.val = InsertValue(stmt.rows[j][c]).value

\* the second value-row was rejected for its type after the first was stored
C6_Witness ==
    /\ Ran("Insert") /\ stmt.table_name \in DOMAIN prev.tables
    /\ Len(stmt.rows) = 2
    /\ Mismatch(prev.tables[stmt.table_name], stmt.rows[2], 1)
    /\ res.msg = "TypeMismatch"
    /\ StoredFrom(1)
    /\ ~StoredFrom(2)

\* C7: an INSERT is never rejected with a unique violation over a Null value.
C7_NullNeverUniqueViolation ==
    (Ran("Insert") /\ res.msg = "UniqueViolation") => res.val # Null

(***************************************************************************)
(* JOIN, declaratively                                                     *)
(***************************************************************************)
JoinRan ==
    /\ Ran("Query") /\ Succeeded
    /\ Len(stmt.from) > 0
    /\ Len(stmt.from[1].joins) > 0

LeftTable == db.tables[stmt.from[1].relation.name]
RightTable == db.tables[stmt.from[1].joins[1].relation.name]

\* the row holds a non-Null value under the column
HasKey(row, column) == column \in DOMAIN row.data /\ row.data[column] # Null

\* the (left row, right row) pairs ON l = r selects
MatchingPairs ==
    LET l == stmt.from[1].joins[1].left.s
        r == stmt.from[1].joins[1].right.s
    IN { p \in RowIds(LeftTable) \X RowIds(RightTable) :
           /\ HasKey(LeftTable.data[p[1]], l)
           /\ HasKey(RightTable.data[p[2]], r)
           /\ LeftTable.data[p[1]].data[l] = RightTable.data[p[2]].data[r] }

PairLine(p) == JoinLine(LeftTable, LeftTable.data[p[1]], RightTable, RightTable.data[p[2]])

\* C8: after the header, the join's output holds exactly one line for each
\* pair whose left value is non-Null and equal to the right value, and no
\* other line.
C8_JoinEmitsMatchingPairs ==
    JoinRan
    => /\ Len(res.lines) = 1 + Cardinality(MatchingPairs)
       /\ \A n \in 2..Len(res.lines) : \E p \in MatchingPairs : res.lines[n] = PairLine(p)
       /\ \A p \in MatchingPairs :
              Cardinality({n \in 2..Len(res.lines) : res.lines[n] = PairLine(p)})
                = Cardinality({q \in MatchingPairs : PairLine(q) = PairLine(p)})

\* a join over a left row with a Null key and a left row matching two right rows
C8_Witness ==
    /\ JoinRan
    /\ \E i \in RowIds(LeftTable) : ~HasKey(LeftTable.data[i], stmt.from[1].joins[1].left.s)
    /\ \E i \in RowIds(LeftTable) :
           Cardinality({p \in MatchingPairs : p[1] = i}) = 2

(***************************************************************************)
(* UPDATE and DELETE, declaratively                                        *)
(***************************************************************************)
\* the WHERE clause is id = N for a numeric literal N
WhereIdIsNumber(st) ==
    /\ st.selection.k = "BinaryEq"
    /\ st.selection.left.k = "Identifier"
    /\ ToLower(st.selection.left.s) = "id"
    /\ st.selection.right.k = "Number"

\* the numeric literal e denotes the row id i
Denotes(e, i) == ~e.dot /\ e.n = i

\* the literal is a 32-bit unsigned integer
InU32(e) == ~e.dot /\ e.n <= U32Max

AssignedColumns(st) == {st.assignments[i].id : i \in 1..Len(st.assignments)}

\* between prev and db nothing changed but, in table name, columns cols of
\* the rows in ids
OnlyChanged(name, ids, cols) ==
    /\ DOMAIN db.tables = DOMAIN prev.tables
    /\ \A t \in DOMAIN prev.tables \ {name} : db.tables[t] = prev.tables[t]
    /\ LET old == prev.tables[name]
           new == db.tables[name]
       IN /\ new.name = old.name
          /\ new.columns = old.columns
          /\ new.unique_columns = old.unique_columns
          /\ new.last_id = old.last_id
          /\ RowIds(new) = RowIds(old)
          /\ \A j \in RowIds(old) \ ids : new.data[j] = old.data[j]
          /\ \A i \in RowIds(old) \cap ids :
                 /\ new.data[i].id = old.data[i].id
                 /\ (DOMAIN new.data[i].data) \ cols = (DOMAIN old.data[i].data) \ cols
                 /\ \A c \in (DOMAIN old.data[i].data) \ cols :
                        new.data[i].data[c] = old.data[i].data[c]

\* C9: a successful UPDATE .. WHERE id = N changes only the assigned columns
\* of the row with id N; every other column, row, table and the table's
\* schema, unique set and last_id are unchanged.
C9_UpdateChangesOnlyRowN ==
    (Ran("Update") /\ Succeeded)
    => OnlyChanged(stmt.table.name,
                   {i \in RowIds(prev.tables[stmt.table.name]) :
                        Denotes(stmt.selection.right, i)},
                   AssignedColumns(stmt))

\* the same for the id the executor parses out of the literal
UpdateChangesOnlyParsedRow ==
    (Ran("Update") /\ Succeeded)
    => OnlyChanged(stmt.table.name, {ParseU32(stmt.selection.right)}, AssignedColumns(stmt))

\* C10: DELETE .. WHERE id = N on a table with no row of id N fails with
\* row-not-found and leaves the rows unchanged; when a row with id N exists,
\* exactly that row is removed.
C10_DeleteRemovesExactlyRowN ==
    ( /\ Ran("Delete") /\ WhereIdIsNumber(stmt)
      /\ DeleteTableName(stmt).name \in DOMAIN prev.tables )
    => LET name == DeleteTableName(stmt).name
           old == prev.tables[name]
           new == db.tables[name]
           hit == {i \in RowIds(old) : Denotes(stmt.selection.right, i)}
       IN /\ hit = {} => (Failed /\ res.msg = "RowNotFound" /\ new.data = old.data)
          /\ hit # {} => Succeeded
          /\ RowIds(new) = RowIds(old) \ hit
          /\ \A j \in RowIds(new) : new.data[j] = old.data[j]

\* the same for the literals that are 32-bit unsigned integers
DeleteRemovesExactlyRowInU32 ==
    ( /\ Ran("Delete") /\ WhereIdIsNumber(stmt) /\ InU32(stmt.selection.right)
      /\ DeleteTableName(stmt).name \in DOMAIN prev.tables )
    => LET name == DeleteTableName(stmt).name
           old == prev.tables[name]
           new == db.tables[name]
           hit == {i \in RowIds(old) : Denotes(stmt.selection.right, i)}
       IN /\ hit = {} => (Failed /\ res.msg = "RowNotFound" /\ new.data = old.data)
          /\ hit # {} => Succeeded
          /\ RowIds(new) = RowIds(old) \ hit
          /\ \A j \in RowIds(new) : new.data[j] = old.data[j]
          /\ db = [prev EXCEPT !.tables[name].data = new.data]
(***************************************************************************)
(* C11: in both front-ends a statement execution that changes the database *)
(* is followed by a snapshot write attempt before the next statement, so   *)
(* that, unless a write failed, the persisted snapshot equals the          *)
(* in-memory database whenever no statement is in progress.                *)
(***************************************************************************)
\* the snapshot file reads back as database d
SnapshotIs(d) == LoadFromDisk(disk) = [ok |-> TRUE, db |-> d]

C11_SnapshotCurrentWhenIdle ==
    (pc = "idle" /\ writes_failed = 0) => SnapshotIs(db)

(***************************************************************************)
(* C12: in server mode at most one request is executing a statement at any *)
(* instant, and a request's snapshot write happens while it still holds    *)
(* the lock: no other request's statement executes between a statement and *)
(* its own snapshot write.                                                 *)
(***************************************************************************)
\* the requests between taking the Mutex and dropping the guard
InCritical == {r \in Requests : req[r].pc \in {"locked", "executed", "saved"}}

\* only the lock holder is in its critical section
HolderOnly == InCritical = IF lock = 0 THEN {} ELSE {lock}

\* the database changes only in the step in which the lock holder executes
\* its statement, and not between that step and the holder's save
ExecutesUnderLock ==
    db' # db =>
        /\ lock # 0
        /\ req[lock].pc = "locked"
        /\ \A r \in Requests \ {lock} : req'[r] = req[r]

\* the file changes only in the lock holder's save, which writes the
\* database its own statement left
SavesUnderLock ==
    disk' # disk =>
        /\ lock # 0 /\ lock' = lock
        /\ req[lock].pc = "executed" /\ req'[lock].pc = "saved"
        /\ db' = db
        /\ disk' \in {Snapshot(db), Partial}

C12_OneStatementAtATime ==
    [][HolderOnly /\ HolderOnly' /\ ExecutesUnderLock /\ SavesUnderLock]_vars

\* a request has executed a statement that changed the database and holds
\* the lock before its save while the other request waits for the lock
C12_Witness ==
    \E r \in Requests, w \in Requests :
       /\ r # w
       /\ lock = r /\ req[r].pc = "executed" /\ req[r].res.status = "Ok"
       /\ ~SnapshotIs(db)
       /\ req[w].pc = "parsed" /\ req[w].stmt # NoStmt

(***************************************************************************)
(* C13: for every database state and every parsed statement the executor   *)
(* returns a success message or a failure text and never panics (so that   *)
(* in server mode every request releases the lock and later requests can   *)
(* still execute).                                                         *)
(***************************************************************************)
C13_ExecutorNeverPanics == res.status # "Panic"

\* in the server the same panic poisons the Mutex, and every later
\* request panics at lock() without executing its statement
MutexNeverPoisoned == ~poisoned

(***************************************************************************)
(* C14: a table, once created, exists in every later state with the same   *)
(* name, ordered column list and unique-column set, under any sequence of  *)
(* statements; a CREATE TABLE naming an existing table fails with a        *)
(* table-exists error and leaves that table's schema and rows unchanged.   *)
(***************************************************************************)
\* the name, columns and unique columns of a table
Schema(table) == <<table.name, table.columns, table.unique_columns>>

\* every table of d is a table of e with the same schema
SchemasKept(d, e) ==
    \A t \in DOMAIN d.tables :
       /\ t \in DOMAIN e.tables
       /\ Schema(e.tables[t]) = Schema(d.tables[t])

\* the statement just run is a CREATE TABLE of a table that existed
RecreatesTable == Ran("CreateTable") /\ stmt.name \in DOMAIN prev.tables

RecreateRejected ==
    RecreatesTable =>
        /\ Failed /\ res.msg = "TableExists"
        /\ db.tables[stmt.name] = prev.tables[stmt.name]

C14_TablesNeverAlteredOrDropped ==
    [][SchemasKept(db, db') /\ RecreateRejected']_vars

\* a CREATE TABLE with another column list was run on a table holding rows
C14_Witness ==
    /\ RecreatesTable
    /\ Failed
    /\ DOMAIN prev.tables[stmt.name].data # {}
    /\ \E c \in 1..Len(stmt.columns) :
          c > Len(prev.tables[stmt.name].columns)
          \/ stmt.columns[c].name # prev.tables[stmt.name].columns[c][1]

(***************************************************************************)
(* C15: an INSERT of an arity- and type-valid value-row whose explicit     *)
(* integer under the column named id (modulo 2^32) is the id of an         *)
(* existing row succeeds and replaces that row: the table has as many rows *)
(* as before and the row with that id holds exactly the new values.        *)
(***************************************************************************)
\* the statement just run is an INSERT of the single value-row stmt.rows[1]
\* into an existing table
SingleRowInsert ==
    /\ Ran("Insert")
    /\ stmt.table_name \in DOMAIN prev.tables
    /\ Len(stmt.rows) = 1

\* the data of the row a valid value-row describes
RowData(table, row) == PrefixData(table, row, Len(row))

\* the value-row is valid and holds under id an Integer that is, modulo
\* 2^32, the id of a row of the table
NamesExistingRow(table, row) ==
    /\ RowValid(table, row)
    /\ "id" \in DOMAIN RowData(table, row)
    /\ RowData(table, row)["id"].t = "Integer"
    /\ (RowData(table, row)["id"].n % U32Mod) \in RowIds(table)

\* the row with the id the value-row names was replaced by the value-row's
\* data, and nothing else in the table changed
Replaced(old, new, row) ==
    LET i == RowData(old, row)["id"].n % U32Mod
    IN /\ RowIds(new) = RowIds(old)
       /\ new.data[i] = Row(i, RowData(old, row))
       /\ \A o \in RowIds(old) \ {i} : new.data[o] = old.data[o]
       /\ new.last_id = old.last_id

\* no row of the table, the one to be replaced included, holds in a unique
\* column the value (Null included) the data holds there
NoUniqueClash(table, data) ==
    \A u \in UniqueSet(table) \cap DOMAIN data :
       \A i \in RowIds(table) :
          u \in DOMAIN table.data[i].data => table.data[i].data[u] # data[u]

StoredId(table, row) ==
    LET data == RowData(table, row)
    IN IF "id" \in DOMAIN data /\ data["id"].t = "Integer"
       THEN data["id"].n % U32Mod
       ELSE (table.last_id + 1) % U32Mod

\* the table after value-row row is stored in it
WithRow(table, row) ==
    LET i == StoredId(table, row)
    IN [table EXCEPT !.data = (i :> Row(i, RowData(table, row))) @@ @,
                     !.last_id = IF i > @ THEN i ELSE @]

\* the table after the first m value-rows are stored, one after the other
RECURSIVE AfterRows(_, _, _)
AfterRows(table, rows, m) ==
    IF m = 0 THEN table ELSE WithRow(AfterRows(table, rows, m - 1), rows[m])

\* the value-row passes against the table: it fits and clashes with no row
Passes(table, row) == RowValid(table, row) /\ NoUniqueClash(table, RowData(table, row))

\* value-row k is the first that does not pass, each against the table as
\* the value-rows before it left it
FirstToFail(table, rows, k) ==
    /\ \A j \in 1..(k - 1) : Passes(AfterRows(table, rows, j - 1), rows[j])
    /\ ~Passes(AfterRows(table, rows, k - 1), rows[k])

\* the statement just run is an INSERT of value-rows into an existing table
RowsInsert ==
    /\ Ran("Insert")
    /\ stmt.table_name \in DOMAIN prev.tables
    /\ stmt.values

C16_RowsStoredUpToFirstFailure ==
    RowsInsert =>
        LET old == prev.tables[stmt.table_name]
            new == db.tables[stmt.table_name]
            n == Len(stmt.rows)
        IN /\ \A k \in 1..n :
                 FirstToFail(old, stmt.rows, k)
                 => /\ Failed
                    /\ res = Insert([tables |-> (stmt.table_name :>
                                         AfterRows(old, stmt.rows, k - 1))],
                                     [stmt EXCEPT !.rows = <<stmt.rows[k]>>], FALSE).res
                    /\ new = AfterRows(old, stmt.rows, k - 1)
           /\ (\A k \in 1..n : ~FirstToFail(old, stmt.rows, k))
                 => /\ Succeeded
                    /\ res.n = n
                    /\ new = AfterRows(old, stmt.rows, n)
           /\ \A t \in DOMAIN prev.tables \ {stmt.table_name} :
                 db.tables[t] = prev.tables[t]

\* the second value-row clashed with the first, stored by the same
\* statement, and with no row stored before the statement
C16_Witness ==
    /\ RowsInsert
    /\ Len(stmt.rows) = 2
    /\ LET old == prev.tables[stmt.table_name]
       IN /\ FirstToFail(old, stmt.rows, 2)
          /\ RowValid(old, stmt.rows[2])
          /\ NoUniqueClash(old, RowData(old, stmt.rows[2]))
          /\ Failed /\ res.msg = "UniqueViolation"
          /\ Cardinality(RowIds(db.tables[stmt.table_name]))
               = Cardinality(RowIds(old)) + 1

(***************************************************************************)
(* C17: an INSERT value-row without an explicit integer id is stored under *)
(* last_id + 1, which differs from the id of every row in the table, so an *)
(* auto-id INSERT always increases the row count by one and never          *)
(* overwrites a row, also when last_id is at the maximum 32-bit value.     *)
(***************************************************************************)
\* process_command was called on an INSERT of one value-row that passes
\* against an existing table and holds no Integer under id; the call
\* returned or panicked
AutoIdInsert ==
    /\ pc \in {"executed", "aborted"}
    /\ stmt.kind = "Insert"
    /\ stmt.table_name \in DOMAIN prev.tables
    /\ stmt.values
    /\ Len(stmt.rows) = 1
    /\ LET old == prev.tables[stmt.table_name]
           data == RowData(old, stmt.rows[1])
       IN /\ Passes(old, stmt.rows[1])
          /\ ~("id" \in DOMAIN data /\ data["id"].t = "Integer")

C17_AutoIdAddsARow ==
    AutoIdInsert =>
        LET old == prev.tables[stmt.table_name]
            new == db.tables[stmt.table_name]
        IN /\ Succeeded
           /\ (old.last_id + 1) \notin RowIds(old)
           /\ RowIds(new) = RowIds(old) \cup {old.last_id + 1}
           /\ \A o \in RowIds(old) : new.data[o] = old.data[o]

\* below the greatest u32 the auto id is new and the row is added
AutoIdAddsARowBelowMax ==
    (AutoIdInsert /\ prev.tables[stmt.table_name].last_id < U32Max)
    => LET old == prev.tables[stmt.table_name]
           new == db.tables[stmt.table_name]
       IN /\ Succeeded
          /\ (old.last_id + 1) \notin RowIds(old)
          /\ RowIds(new) = RowIds(old) \cup {old.last_id + 1}
          /\ \A o \in RowIds(old) : new.data[o] = old.data[o]

\* without overflow checks the auto id wraps to 0 and replaces row 0
AutoIdNeverOverwrites ==
    (AutoIdInsert /\ Succeeded)
    => RowIds(prev.tables[stmt.table_name]) # RowIds(db.tables[stmt.table_name])

(***************************************************************************)
(* C18: UPDATE and DELETE with WHERE id = N modify or remove only a row    *)
(* whose id equals the literal N; when N is a numeric literal that is not  *)
(* a 32-bit unsigned integer (above 2^32 - 1, or with a decimal point) the *)
(* statement fails with row-not-found and no row, row 0 included, changes. *)
(***************************************************************************)
\* the statement just run is an UPDATE or DELETE .. WHERE id = N, N a
\* numeric literal, on an existing table
ByIdStatement ==
    /\ Ran("Update") \/ Ran("Delete")
    /\ WhereIdIsNumber(stmt)
    /\ IF stmt.kind = "Update"
       THEN stmt.table.table /\ stmt.table.name \in DOMAIN prev.tables
       ELSE DeleteTableName(stmt).name \in DOMAIN prev.tables

TargetTable == IF stmt.kind = "Update" THEN stmt.table.name ELSE DeleteTableName(stmt).name

\* the ids of the rows the statement removed or changed
Touched ==
    LET old == prev.tables[TargetTable]
        new == db.tables[TargetTable]
    IN {i \in RowIds(old) : i \notin RowIds(new) \/ new.data[i] # old.data[i]}

C18_OnlyTheRowTheLiteralNames ==
    ByIdStatement =>
        /\ \A i \in Touched : Denotes(stmt.selection.right, i)
        /\ ~InU32(stmt.selection.right)
             => (Failed /\ res.msg = "RowNotFound" /\ db = prev)

(***************************************************************************)
(* C19: in an UPDATE on an existing row, an assignment whose value         *)
(* expression is not a recognized literal (number, quoted string, boolean) *)
(* never makes the statement fail: the column is set to Null and the       *)
(* UPDATE returns its success confirmation.                                *)
(***************************************************************************)
\* the statement just run is an UPDATE .. WHERE id = N that found its row
UpdateOnRow ==
    /\ Ran("Update")
    /\ stmt.table.table /\ stmt.table.name \in DOMAIN prev.tables
    /\ WhereIdIsNumber(stmt)
    /\ ParseU32(stmt.selection.right) \in RowIds(prev.tables[stmt.table.name])

\* the row the UPDATE found, as the statement left it
UpdatedRow == db.tables[stmt.table.name].data[ParseU32(stmt.selection.right)]

RecognizedKinds == {"Number", "String", "Boolean"}

\* the literals sqlparser parses to an Expr::Value
ValueKinds == {"Number", "String", "Boolean", "Null", "OtherValue"}

\* assignment i is the last one to its column among the first m
LastToColumn(i, m) ==
    \A j \in (i + 1)..m : stmt.assignments[j].id # stmt.assignments[i].id

\* C19 as claimed
C19_UnrecognizedNeverFails ==
    UpdateOnRow =>
        \A i \in 1..Len(stmt.assignments) :
           stmt.assignments[i].value.k \notin RecognizedKinds
           => /\ Succeeded
              /\ LastToColumn(i, Len(stmt.assignments))
                   => /\ stmt.assignments[i].id \in DOMAIN UpdatedRow.data
                      /\ UpdatedRow.data[stmt.assignments[i].id] = Null

\* the assignments before the m-th that hold an unrecognized literal have
\* set their column to Null
NullsApplied(m) ==
    \A i \in 1..m :
       ( /\ stmt.assignments[i].value.k \in ValueKinds \ RecognizedKinds
         /\ LastToColumn(i, m) )
       => /\ stmt.assignments[i].id \in DOMAIN UpdatedRow.data
          /\ UpdatedRow.data[stmt.assignments[i].id] = Null

\* C19 (amended): an assignment whose value is a literal other than a
\* number, quoted string or boolean sets its column to Null and does not
\* fail the statement; the first assignment whose value is no literal at
\* all fails the UPDATE with an unsupported-value error, the assignments
\* before it staying applied.
C19_UnrecognizedLiteralBecomesNull ==
    UpdateOnRow =>
        LET n == Len(stmt.assignments)
            bad == {i \in 1..n : stmt.assignments[i].value.k \notin ValueKinds}
        IN /\ bad = {} => (Succeeded /\ NullsApplied(n))
           /\ \A i \in bad :
                 (\A j \in bad : i <= j)
                 => /\ Failed /\ res.msg = "UnsupportedValue"
                    /\ NullsApplied(i - 1)

\* an UPDATE with an unrecognized literal succeeded on a row whose column
\* held a value
C19_Witness ==
    /\ UpdateOnRow
    /\ Succeeded
    /\ \E i \in 1..Len(stmt.assignments) :
          /\ stmt.assignments[i].value.k = "OtherValue"
          /\ stmt.assignments[i].id \in
                DOMAIN prev.tables[stmt.table.name].data[ParseU32(stmt.selection.right)].data
          /\ prev.tables[stmt.table.name].data[ParseU32(stmt.selection.right)]
                .data[stmt.assignments[i].id] # Null
          /\ UpdatedRow.data[stmt.assignments[i].id] = Null

(***************************************************************************)
(* C20: every SELECT result, with or without a join, renders each value    *)
(* the same way: an Integer or Float as its decimal number, a Bool as true *)
(* or false, a Text as its characters and Null as NULL; data rows appear   *)
(* in ascending row-id order (left-row id order first for a join).         *)
(***************************************************************************)
\* the rendering the claim describes (a Float of the model is n + 1/2)
Rendering(v) ==
    CASE v.t = "Integer" -> ToString(v.n)
      [] v.t = "Float" -> ToString(v.n) \o ".5"
      [] v.t = "Bool" -> IF v.n = 1 THEN "true" ELSE "false"
      [] v.t = "Text" -> v.s
      [] OTHER -> "NULL"

\* the cells of a row under the columns cols, rendered
RenderedCells(row, cols) ==
    [c \in 1..Len(cols) |->
        Rendering(IF cols[c] \in DOMAIN row.data THEN row.data[cols[c]] ELSE Null)]

\* the names of the columns of a table, in schema order
SchemaColumns(table) == [c \in 1..Len(table.columns) |-> table.columns[c][1]]

PlainRan ==
    /\ Ran("Query") /\ Succeeded
    /\ Len(stmt.from) > 0
    /\ Len(stmt.from[1].joins) = 0

\* the data lines of a SELECT without join: the rows in ascending id order,
\* each the id followed by the rendered cells of the columns in the header
PlainRendered ==
    LET table == LeftTable
        cols == Tail(res.lines[1])
    IN /\ Len(res.lines) = 1 + Cardinality(RowIds(table))
       /\ \A i \in RowIds(table) :
              res.lines[1 + Cardinality({o \in RowIds(table) : o <= i})]
                = <<ToString(i)>> \o RenderedCells(table.data[i], cols)

\* p comes before q in left-row id order, then right-row id order
PairBefore(p, q) == p[1] < q[1] \/ (p[1] = q[1] /\ p[2] <= q[2])

\* the data lines of a join: the matching pairs in that order, each the
\* rendered cells of the left row followed by those of the right row
JoinRendered ==
    /\ Len(res.lines) = 1 + Cardinality(MatchingPairs)
    /\ \A p \in MatchingPairs :
           res.lines[1 + Cardinality({q \in MatchingPairs : PairBefore(q, p)})]
             = RenderedCells(LeftTable.data[p[1]], SchemaColumns(LeftTable))
               \o RenderedCells(RightTable.data[p[2]], SchemaColumns(RightTable))

C20_UniformRendering ==
    /\ PlainRan => PlainRendered
    /\ JoinRan => JoinRendered

\* a SELECT without join renders as claimed
PlainSelectRendered == PlainRan => PlainRendered

\* a join emits its pairs in the claimed order, with the cells in the
\* derived Debug format
JoinOrdered ==
    JoinRan =>
        /\ Len(res.lines) = 1 + Cardinality(MatchingPairs)
        /\ \A p \in MatchingPairs :
               res.lines[1 + Cardinality({q \in MatchingPairs : PairBefore(q, p)})]
                 = PairLine(p)

(***************************************************************************)
(* C21: a SELECT, with or without a join and whether it succeeds or fails, *)
(* never changes the in-memory database: tables, schemas, rows, values and *)
(* last_id counters are the same after it as before.                       *)
(***************************************************************************)
\* process_command was called on a query and returned or panicked
QueryCalled == pc \in {"executed", "aborted"} /\ stmt.kind = "Query"

C21_SelectLeavesDatabaseUnchanged == QueryCalled => db = prev

\* a join that emitted data lines ran on a database of two tables with rows
C21_Witness ==
    /\ QueryCalled
    /\ Succeeded
    /\ Len(res.lines) > 1
    /\ Len(stmt.from) > 0 /\ Len(stmt.from[1].joins) > 0
    /\ Cardinality(DOMAIN prev.tables) = 2
    /\ \A t \in DOMAIN prev.tables : RowIds(prev.tables[t]) # {}

====
